---- MODULE Spec2Model ----
(***************************************************************************)
(* Binding engine of rxjs-reactive-web: bind(root, bindings) wires sink    *)
(* streams to the elements of a DOM subtree, exposes the click events of   *)
(* [data-on] elements as shared streams (events$), and returns a composite *)
(* Subscription with a dispose() function.                                 *)
(* runMVU(cfg) builds a message Subject and a replaying model stream, binds *)
(* view(model$) with bindTemplate and feeds the Subject from the DOM-event  *)
(* messages and an external stream.  createHashRoute$() turns the location  *)
(* hash into a stream of routes and bindHashLinks(root) makes a[data-link]  *)
(* anchors navigate by assigning the hash.                                  *)
(*                                                                         *)
(* The DOM is a small fixed page.  Streams handed to bind are hot streams  *)
(* (Subjects): a value emitted on one is delivered synchronously to the    *)
(* subscribers it has at that moment, in the order they subscribed.        *)
(* A subscriber callback that throws is handled the way RxJS 7 does: the   *)
(* error is reported asynchronously and the subscription stays open.       *)
(***************************************************************************)
EXTENDS Naturals, Sequences, FiniteSets, TLC

VARIABLES
    dom,        \* element -> its mutable properties
    broken,     \* elements whose property setters throw (stub elements)
    bound,      \* bind call -> "none" | "ok" | "threw"
    declOf,     \* bind call -> the declaration it was called with
    rootOf,     \* bind call -> the root argument the caller passes to it
    mvu,        \* run -> the runMVU handle: status, msg$, model$, external stream
    children,   \* bind call -> the subscriptions added to `sub`, in sub.add order
    subClosed,  \* bind call -> `sub.closed`
    eventNames, \* bind call -> the names of events$
    eventSubs,  \* bind call -> name -> subscribers of events$[name]
    listeners,  \* element -> bind call -> native click listeners registered
    received,   \* bind call -> subscriber -> click events received
    writeLog,   \* every property write, in the order performed
    emitLog,    \* every emission of a sink stream, in the order delivered
    reported,   \* errors logged (console.error) or reported asynchronously
    disposed,   \* bind call -> dispose() was called: "no" | "once" | "again"
    clicks,     \* number of clicks dispatched
    lastClick,  \* the element clicked last (0: none yet)
    win,        \* window: location.hash, queued hashchange events, assignments made
    route,      \* the stream createHashRoute$() returned and its subscribers
    links       \* the bindHashLinks call, its anchors' listeners, the last anchor click

vars == <<dom, broken, bound, declOf, rootOf, mvu, children, subClosed, eventNames, eventSubs,
          listeners, received, writeLog, emitLog, reported, disposed, clicks,
          lastClick, win, route, links>>

\* The variables of the binding engine, and those of the hash router.
page == <<dom, broken, bound, declOf, rootOf, mvu, children, subClosed, eventNames, eventSubs,
          listeners, received, writeLog, emitLog, reported, disposed, clicks,
          lastClick>>

nav == <<win, route, links>>

(***************************************************************************)
(* Bounds of the model.                                                    *)
(***************************************************************************)
MaxEmit == 3
MaxClicks == 2
MaxMsgs == 3

(***************************************************************************)
(* The page.  Elements are numbered in document order.                     *)
(***************************************************************************)
NoAttr == "<absent>"

Page ==
    << [tag |-> "div",    form |-> FALSE, cls |-> "test",
        data |-> [a \in {"data-html", "data-class", "data-disabled", "data-on"} |->
                    CASE a = "data-html" -> "content"
                      [] a = "data-class" -> "box"
                      [] a = "data-disabled" -> "dec"
                      [] OTHER -> NoAttr]],
       [tag |-> "input",  form |-> TRUE,  cls |-> "test",
        data |-> [a \in {"data-html", "data-class", "data-disabled", "data-on"} |->
                    CASE a = "data-html" -> "content"
                      [] a = "data-class" -> "box"
                      [] a = "data-disabled" -> "dec"
                      [] OTHER -> NoAttr]],
       [tag |-> "button", form |-> FALSE, cls |-> "",
        data |-> [a \in {"data-html", "data-class", "data-disabled", "data-on"} |->
                    IF a = "data-on" THEN "go" ELSE NoAttr]],
       [tag |-> "button", form |-> FALSE, cls |-> "",
        data |-> [a \in {"data-html", "data-class", "data-disabled", "data-on"} |->
                    IF a = "data-on" THEN "go" ELSE NoAttr]],
       [tag |-> "button", form |-> FALSE, cls |-> "",
        data |-> [a \in {"data-html", "data-class", "data-disabled", "data-on"} |->
                    IF a = "data-on" THEN "" ELSE NoAttr]] >>

Elems == DOMAIN Page

Binds == {1, 2}

Consumers == {"c1", "c2"}

\* TextLike values a stream emits: null, the number 1, the string "1".
Vals == {"null", "n1", "s1"}

NoValue == "<none>"

\* In a `seed`: the stream is derived from model$ of runMVU (model$.pipe(map)).
ModelStream == "<model$>"

(***************************************************************************)
(* Selectors.  A binding key is the string the caller wrote; the tree      *)
(* query parses it.  The parsed forms are a type selector, a class         *)
(* selector, an attribute selector [a="v"], an attribute-presence selector *)
(* [a], or a string that is no selector.                                   *)
(***************************************************************************)
TagSel(n) == [t |-> "tag", a |-> "", v |-> n]
ClassSel(c) == [t |-> "class", a |-> "", v |-> c]
AttrSel(a, v) == [t |-> "attr", a |-> a, v |-> v]
HasAttrSel(a) == [t |-> "has", a |-> a, v |-> ""]
InvalidSel == [t |-> "invalid", a |-> "", v |-> ""]

\* The keys that contain a double quote.
Quoted == {"[data-html=\"content\"]", "[data-disabled=\"dec\"]"}

\* CSS parse of a key string.
ParseSelector(s) ==
    CASE s = ".test" -> ClassSel("test")
      [] s = "[data-html=\"content\"]" -> AttrSel("data-html", "content")
      [] s = "[data-disabled=\"dec\"]" -> AttrSel("data-disabled", "dec")
      [] s = "[data-on]" -> HasAttrSel("data-on")
      [] s = "[[" -> InvalidSel
      [] OTHER -> TagSel(s)

\* The template literal `[attr="${name}"]`: the name is pasted between double
\* quotes, so a name that itself holds a double quote ends the string early
\* and what follows is no selector.
AttrTemplate(attr, name) ==
    IF name \in Quoted THEN InvalidSel ELSE AttrSel(attr, name)

Matches(e, sel) ==
    /\ dom[e].attached
    /\ CASE sel.t = "tag" -> Page[e].tag = sel.v
         [] sel.t = "class" -> dom[e].className = sel.v
         [] sel.t = "attr" -> Page[e].data[sel.a] = sel.v
         [] sel.t = "has" -> Page[e].data[sel.a] # NoAttr
         [] OTHER -> FALSE

RECURSIVE InOrder(_, _)
\* The elements of S as a sequence in document order, from element e on.
InOrder(S, e) ==
    IF e \notin Elems THEN <<>>
    ELSE (IF e \in S THEN <<e>> ELSE <<>>) \o InOrder(S, e + 1)

\* root.querySelectorAll(selector): the matching elements in document order.
QuerySelectorAll(sel) == InOrder({e \in Elems : Matches(e, sel)}, 1)

Throw == [threw |-> TRUE, els |-> <<>>]

\* Variant of qAll that treats an empty result as an error.
qAllThrowsOnEmpty(sel) ==
    IF sel.t = "invalid" \/ QuerySelectorAll(sel) = <<>> THEN Throw
    ELSE [threw |-> FALSE, els |-> QuerySelectorAll(sel)]

\* qAll(root, selector): a malformed selector throws a BindingError.
qAll(sel) ==
    IF sel.t = "invalid" THEN Throw
    ELSE [threw |-> FALSE, els |-> QuerySelectorAll(sel)]

(***************************************************************************)
(* Binding declarations (BindingObject): per binding kind the keys it      *)
(* declares, in insertion order.  Each (kind, key) entry has its own       *)
(* stream; `events` holds the names given callbacks; `custom` is the map   *)
(* of the custom attribute data-state.  `seed` gives the current value of  *)
(* the streams that are BehaviorSubjects: such a stream emits its current  *)
(* value to a subscriber at the moment it subscribes; the other streams    *)
(* are plain Subjects.                                                     *)
(***************************************************************************)
Seed(kind, key, v) == [kind |-> kind, key |-> key, val |-> v]

\* The current value of stream (kind, key) of declaration seeds, if it has one.
SeedOf(seeds, kind, key) ==
    IF \E x \in seeds : x.kind = kind /\ x.key = key
    THEN (CHOOSE x \in seeds : x.kind = kind /\ x.key = key).val
    ELSE NoValue

DeclText ==
    [text |-> <<".test", "input">>, value |-> <<>>, html |-> <<>>,
     className |-> <<>>, disabled |-> <<>>, events |-> <<"go">>, custom |-> <<>>, seed |-> {}]

DeclValue ==
    [text |-> <<>>, value |-> <<".test">>, html |-> <<>>,
     className |-> <<>>, disabled |-> <<>>, events |-> <<>>, custom |-> <<".test">>, seed |-> {}]

DeclMarkup ==
    [text |-> <<>>, value |-> <<>>, html |-> <<"content">>,
     className |-> <<"box">>, disabled |-> <<>>, events |-> <<>>, custom |-> <<>>, seed |-> {}]

DeclDisabled ==
    [text |-> <<"missing">>, value |-> <<>>, html |-> <<"missing">>,
     className |-> <<>>, disabled |-> <<"dec">>, events |-> <<>>, custom |-> <<>>, seed |-> {}]

\* Keys written as selectors for every kind, as the counter component's view does.
DeclSelectors ==
    [text |-> <<".test">>, value |-> <<>>, html |-> <<>>, className |-> <<>>,
     disabled |-> <<"[data-disabled=\"dec\"]">>, events |-> <<>>,
     custom |-> <<"input">>, seed |-> {}]

\* A key that is no selector, after a key that matches elements.
DeclMalformed ==
    [text |-> <<".test", "[[">>, value |-> <<>>, html |-> <<"content">>,
     className |-> <<>>, disabled |-> <<>>, events |-> <<>>, custom |-> <<>>,
     seed |-> {}]

\* The same key under a kind that pastes it into an attribute selector.
DeclMalformedMarkup ==
    [text |-> <<>>, value |-> <<>>, html |-> <<"[[">>, className |-> <<"box">>,
     disabled |-> <<>>, events |-> <<>>, custom |-> <<>>, seed |-> {}]

\* A text sink and a markup sink on the same elements, both fed by a
\* BehaviorSubject with current values v and w.
DeclReplay(v, w) ==
    [text |-> <<".test">>, value |-> <<>>, html |-> <<"content">>,
     className |-> <<>>, disabled |-> <<>>, events |-> <<>>, custom |-> <<>>,
     seed |-> {Seed("text", ".test", v), Seed("html", "content", w)}]

DeclEvents ==
    [text |-> <<>>, value |-> <<>>, html |-> <<>>, className |-> <<>>,
     disabled |-> <<>>, events |-> <<"go", "nope">>, custom |-> <<>>, seed |-> {}]

DeclNoCallbacks ==
    [text |-> <<>>, value |-> <<>>, html |-> <<>>, className |-> <<>>,
     disabled |-> <<>>, events |-> <<>>, custom |-> <<>>, seed |-> {}]

NoDecl == DeclNoCallbacks

Entry(kind, key) == [kind |-> kind, key |-> key]

RECURSIVE EntriesOf(_, _, _)
EntriesOf(kind, keys, i) ==
    IF i > Len(keys) THEN <<>>
    ELSE <<Entry(kind, keys[i])>> \o EntriesOf(kind, keys, i + 1)

\* The sink entries of a declaration (Object.entries of each map).
SinkEntries(d) ==
    {Entry("text", d.text[i]) : i \in DOMAIN d.text}
    \cup {Entry("value", d.value[i]) : i \in DOMAIN d.value}
    \cup {Entry("html", d.html[i]) : i \in DOMAIN d.html}
    \cup {Entry("className", d.className[i]) : i \in DOMAIN d.className}
    \cup {Entry("disabled", d.disabled[i]) : i \in DOMAIN d.disabled}
    \cup {Entry("data-state", d.custom[i]) : i \in DOMAIN d.custom}

(***************************************************************************)
(* Apply functions.                                                        *)
(***************************************************************************)
\* value?.toString() ?? ''  and  value == null ? '' : String(value)
RenderTextLike(v) == CASE v = "null" -> "" [] v = "n1" -> "1" [] OTHER -> "1"

\* html ?? ''  and  cls ?? ''  (the DOM setter stringifies what it is given)
RenderOrEmpty(v) == CASE v = "null" -> "" [] v = "n1" -> "1" [] OTHER -> "1"

\* Boolean(isDisabled)
RenderBoolean(v) == IF v = "null" THEN "false" ELSE "true"

\* String(val)
RenderString(v) == CASE v = "null" -> "null" [] v = "n1" -> "1" [] OTHER -> "1"

Render(kind, v) ==
    CASE kind \in {"text", "value"} -> RenderTextLike(v)
      [] kind \in {"html", "className"} -> RenderOrEmpty(v)
      [] kind = "disabled" -> RenderBoolean(v)
      [] OTHER -> RenderString(v)

\* The element property a kind's handler assigns.
Prop(kind) ==
    CASE kind \in {"text", "html"} -> "content"
      [] kind = "value" -> "value"
      [] kind = "className" -> "className"
      [] kind = "disabled" -> "disabled"
      [] OTHER -> "attr"

\* What running a kind's handler on element e does: it assigns the property
\* ("write"), leaves the element alone ("skip": the value handler on an element
\* that is no form control), or throws ("throw": a setter of a broken element).
HandlerOutcome(kind, e) ==
    IF kind = "value" /\ ~Page[e].form THEN "skip"
    ELSE IF e \in broken THEN "throw"
    ELSE "write"

WriteRec(b, kind, key, e, v) ==
    [bind |-> b, kind |-> kind, key |-> key, el |-> e, val |-> Render(kind, v)]

\* Variant of ApplyHandler whose handlers also reset the element's class.
ApplyHandlerResetsClass(st, b, kind, key, e, v) ==
    LET o == HandlerOutcome(kind, e) IN
    CASE o = "throw" -> [st EXCEPT !.rep = @ + 1]
      [] o = "skip" -> st
      [] OTHER -> [st EXCEPT !.dom[e][Prop(kind)] = Render(kind, v),
                             !.dom[e].className = "",
                             !.log = Append(@, WriteRec(b, kind, key, e, v))]

\* One handler call inside try/catch (bindObservable) or inside a subscriber
\* callback (html, className, disabled): a throw is logged or reported and
\* nothing else happens.
ApplyHandler(st, b, kind, key, e, v) ==
    LET o == HandlerOutcome(kind, e) IN
    CASE o = "throw" -> [st EXCEPT !.rep = @ + 1]
      [] o = "skip" -> st
      [] OTHER -> [st EXCEPT !.dom[e][Prop(kind)] = Render(kind, v),
                             !.log = Append(@, WriteRec(b, kind, key, e, v))]

RECURSIVE ForEachNoCatch(_, _, _, _, _, _, _)
\* Variant of ForEachElement without the try/catch: the first throw ends the loop.
ForEachNoCatch(st, b, kind, key, els, i, v) ==
    IF i > Len(els) THEN st
    ELSE IF HandlerOutcome(kind, els[i]) = "throw" THEN [st EXCEPT !.rep = @ + 1]
    ELSE ForEachNoCatch(ApplyHandler(st, b, kind, key, els[i], v),
                        b, kind, key, els, i + 1, v)

RECURSIVE ForEachReversed(_, _, _, _, _, _, _)
\* Variant of ForEachElement that walks the elements from the last to the first.
ForEachReversed(st, b, kind, key, els, i, v) ==
    IF i > Len(els) THEN st
    ELSE ForEachReversed(ApplyHandler(st, b, kind, key, els[Len(els) + 1 - i], v),
                         b, kind, key, els, i + 1, v)

RECURSIVE ForEachElement(_, _, _, _, _, _, _)
\* elements.forEach(el => { try { handler(el, value) } catch { console.error } })
ForEachElement(st, b, kind, key, els, i, v) ==
    IF i > Len(els) THEN st
    ELSE ForEachElement(ApplyHandler(st, b, kind, key, els[i], v),
                        b, kind, key, els, i + 1, v)

\* Variant of DistinctUntilChanged that compares what the values render to.
DistinctByRendering(prev, v) ==
    prev = NoValue \/ RenderTextLike(v) # RenderTextLike(prev)

\* distinctUntilChanged(): a value passes unless it is === the previous one.
DistinctUntilChanged(prev, v) == v # prev

\* Variant of DeliverToChild that resolves the key again at every emission.
DeliverToChildRequeries(st, b, c, v) ==
    LET ch == st.ch[c]
        sel == CASE ch.kind = "html" -> AttrTemplate("data-html", ch.key)
                 [] ch.kind = "className" -> AttrTemplate("data-class", ch.key)
                 [] ch.kind = "disabled" -> AttrTemplate("data-disabled", ch.key)
                 [] OTHER -> ParseSelector(ch.key)
        els == QuerySelectorAll(sel)
    IN
    IF ch.piped
    THEN IF DistinctUntilChanged(ch.prev, v)
         THEN ForEachElement([st EXCEPT !.ch[c].prev = v],
                             b, ch.kind, ch.key, els, 1, v)
         ELSE st
    ELSE IF ch.els[1] \in {els[i] : i \in DOMAIN els}
         THEN ApplyHandler(st, b, ch.kind, ch.key, ch.els[1], v)
         ELSE st

\* Delivery of value v to one subscription of the stream.
DeliverToChild(st, b, c, v) ==
    LET ch == st.ch[c] IN
    IF ch.piped
    THEN IF DistinctUntilChanged(ch.prev, v)
         THEN ForEachElement([st EXCEPT !.ch[c].prev = v],
                             b, ch.kind, ch.key, ch.els, 1, v)
         ELSE st
    ELSE ApplyHandler(st, b, ch.kind, ch.key, ch.els[1], v)

RECURSIVE Deliver(_, _, _, _, _, _)
\* A hot stream's next(v): every open subscription of the stream, in the order
\* the subscriptions were made.
Deliver(st, b, kind, key, c, v) ==
    IF c > Len(st.ch) THEN st
    ELSE LET ch == st.ch[c]
             st1 == IF ch.kind = kind /\ ch.key = key /\ ~ch.closed
                    THEN DeliverToChild(st, b, c, v)
                    ELSE st
         IN Deliver(st1, b, kind, key, c + 1, v)

(***************************************************************************)
(* events$: one shared stream per event-source name.  Every bind call      *)
(* builds its events$ afresh from fromEvent/merge/share; the helper        *)
(* getOrCreateEventStream and the eventCache it fills are never called by  *)
(* bind, so the cache stays empty and holds no state.                      *)
(***************************************************************************)
Names == {"go", "nope", ""}

Callback == "callback"

\* The subscription runMVU makes to the streams eventsToMsg merges.
DomMsgs == "domMsgs$"

Subscribers == Consumers \cup {Callback, DomMsgs}

\* The elements marked with event-source name `name`.
SourcesOf(name) == {e \in Elems : Page[e].data["data-on"] = name}

\* The roots of the two counter islands of the page.
IslandRoots == {"counter-1", "counter-2"}

\* Variant of Under in which every root spans the whole page.
UnderWholePage(r) == Elems

\* The elements a query on root r can reach: its descendants.  The page root
\* holds every element, whether it is an HTMLElement or an SVG element.
Under(r) ==
    CASE r = "counter-1" -> {1, 3}
      [] r = "counter-2" -> {2, 4, 5}
      [] r \in {"element", "svg"} -> Elems
      [] OTHER -> {}

\* The elements whose click stream bind call b merges into events$[name].
SourcesIn(b, name) == SourcesOf(name) \cap Under(rootOf[b])

\* Variant of ShareConnects without sharing: every subscriber subscribes the source.
ShareConnectsAlways(subs) == TRUE

\* share(): the source is subscribed when the first subscriber arrives.
ShareConnects(subs) == subs = {}

\* Variant of ShareDisconnects that keeps the source subscribed.
ShareDisconnectsNever(subs) == FALSE

\* share(): the source is unsubscribed when the last subscriber leaves.
ShareDisconnects(subs) == subs = {}

\* Variant of AddListeners that registers the listener twice on every element.
AddListenersTwice(ls, b, name) ==
    [e \in Elems |-> IF e \in SourcesIn(b, name)
                     THEN [ls[e] EXCEPT ![b] = @ + 2] ELSE ls[e]]

\* fromEvent(el, 'click') subscribed: addEventListener on every merged element.
AddListeners(ls, b, name) ==
    [e \in Elems |-> IF e \in SourcesIn(b, name)
                     THEN [ls[e] EXCEPT ![b] = @ + 1] ELSE ls[e]]

\* fromEvent unsubscribed: removeEventListener.
RemoveListeners(ls, b, name) ==
    [e \in Elems |-> IF e \in SourcesIn(b, name) /\ ls[e][b] > 0
                     THEN [ls[e] EXCEPT ![b] = @ - 1] ELSE ls[e]]

\* events$[name].subscribe(...) by subscriber `who`; es is eventSubs[b].
ShareSubscribe(es, ls, b, name, who) ==
    [es |-> [es EXCEPT ![name] = @ \cup {who}],
     ls |-> IF ShareConnects(es[name]) THEN AddListeners(ls, b, name) ELSE ls]

ShareUnsubscribe(es, ls, b, name, who) ==
    LET left == es[name] \ {who} IN
    [es |-> [es EXCEPT ![name] = left],
     ls |-> IF who \in es[name] /\ ShareDisconnects(left)
            THEN RemoveListeners(ls, b, name) ELSE ls]

(***************************************************************************)
(* bind(root, bindings)                                                    *)
(***************************************************************************)
Child(kind, key, piped, els) ==
    [kind |-> kind, key |-> key, piped |-> piped, els |-> els,
     closed |-> FALSE, unsubs |-> 0, prev |-> NoValue]

RECURSIVE PerElement(_, _, _, _)
\* for (const el of els) sub.add(stream.subscribe(...)): one subscription per element.
PerElement(kind, key, els, i) ==
    IF i > Len(els) THEN <<>>
    ELSE <<Child(kind, key, FALSE, <<els[i]>>)>> \o PerElement(kind, key, els, i + 1)

\* The selector a sink entry is resolved with: text, value and custom entries
\* pass the key itself to qAll; html, className and disabled entries paste it
\* into an attribute selector.
SelectorFor(kind, key) ==
    CASE kind = "html" -> AttrTemplate("data-html", key)
      [] kind = "className" -> AttrTemplate("data-class", key)
      [] kind = "disabled" -> AttrTemplate("data-disabled", key)
      [] OTHER -> ParseSelector(key)

\* Whether the kind goes through bindObservable (one piped subscription for
\* all elements) or subscribes the stream once per element.
UsesBindObservable(kind) == kind \in {"text", "value", "data-state"}

\* Variant of EventSourceNames that keeps the empty data-on value as a name.
EventSourceNamesKeepsEmpty ==
    LET q == qAll(ParseSelector("[data-on]")) IN
    {Page[q.els[i]].data["data-on"] : i \in DOMAIN q.els}

\* The names given to events$: the non-empty data-on values under the root.
EventSourceNames ==
    LET q == qAll(ParseSelector("[data-on]")) IN
    {Page[q.els[i]].data["data-on"] : i \in DOMAIN q.els} \ {""}

\* The statements of bind in program order.
BindSteps(d) ==
    EntriesOf("text", d.text, 1) \o EntriesOf("value", d.value, 1)
    \o EntriesOf("html", d.html, 1) \o EntriesOf("className", d.className, 1)
    \o EntriesOf("disabled", d.disabled, 1) \o <<Entry("events$", "")>>
    \o EntriesOf("events", d.events, 1) \o EntriesOf("data-state", d.custom, 1)

\* Variant of ModelReplay for share() in place of shareReplay: only the
\* subscriber that connects the stream sees the startWith value.
ModelReplayNone(conn, buf, init) == IF conn THEN NoValue ELSE init

\* What model$ hands a new subscriber: the first one connects the stream and
\* gets startWith(init); a later one gets the replay buffer (bufferSize 1).
ModelReplay(conn, buf, init) == IF conn THEN buf ELSE init

RECURSIVE ReplayTo(_, _, _, _)
\* A stream with a current value hands it to the subscriptions from the c-th
\* on, each at the moment it is made.
ReplayTo(st, b, c, v) ==
    IF c > Len(st.ch) THEN st
    ELSE LET w == IF v = ModelStream THEN ModelReplay(st.conn, st.buf, st.init)
                  ELSE v
             st1 == IF v = ModelStream
                    THEN [st EXCEPT !.conn = TRUE,
                                    !.buf = IF st.conn THEN @ ELSE st.init]
                    ELSE st
             st2 == IF w = NoValue THEN st1 ELSE DeliverToChild(st1, b, c, w)
         IN ReplayTo(st2, b, c + 1, v)

\* stream.subscribe(...) and sub.add(...) for the subscriptions `new` of one
\* stream whose current value is v (NoValue: it has none).
SubscribeAll(bs, b, new, v) ==
    LET n == Len(bs.ch)
        bs1 == [bs EXCEPT !.ch = @ \o new]
    IN IF v = NoValue THEN bs1 ELSE ReplayTo(bs1, b, n + 1, v)

\* root.querySelectorAll: only the descendants of the root are found.
Scoped(q, r) == [q EXCEPT !.els = SelectSeq(@, LAMBDA e : e \in Under(r))]

BindStep(bs, b, en) ==
    CASE en.kind = "events$" ->
           [bs EXCEPT !.names = {n \in EventSourceNames : SourcesIn(b, n) # {}}]
      [] en.kind = "events" ->
           IF en.key \in bs.names
           THEN LET r == ShareSubscribe(bs.es, bs.ls, b, en.key, Callback) IN
                [bs EXCEPT !.ch = Append(@, Child("events", en.key, FALSE, <<>>)),
                           !.es = r.es, !.ls = r.ls]
           ELSE bs
      [] OTHER ->
           LET q == Scoped(qAll(SelectorFor(en.kind, en.key)), bs.root) IN
           IF q.threw THEN [bs EXCEPT !.threw = TRUE]
           ELSE IF Len(q.els) = 0 THEN bs
           ELSE IF UsesBindObservable(en.kind)
           THEN SubscribeAll(bs, b, <<Child(en.kind, en.key, TRUE, q.els)>>,
                             SeedOf(bs.seed, en.kind, en.key))
           ELSE SubscribeAll(bs, b, PerElement(en.kind, en.key, q.els, 1),
                             SeedOf(bs.seed, en.kind, en.key))

RECURSIVE RunBind(_, _, _, _)
\* Runs the statements from the i-th on; a throw ends the call there.
RunBind(bs, b, steps, i) ==
    IF i > Len(steps) \/ bs.threw THEN bs
    ELSE RunBind(BindStep(bs, b, steps[i]), b, steps, i + 1)

\* The root arguments: an HTMLElement, null, an element that is no HTMLElement.
Roots == {"element", "null", "svg"}

\* !root || !(root instanceof HTMLElement)
RootUsable(r) == r \notin {"null", "svg"}

\* The state a bind call starts from.
BindStart(b, d) ==
    [ch |-> <<>>, names |-> {}, es |-> eventSubs[b], ls |-> listeners,
     threw |-> FALSE, dom |-> dom, log |-> writeLog, rep |-> reported,
     seed |-> d.seed, conn |-> mvu[b].connected, buf |-> mvu[b].model,
     init |-> mvu[b].init, root |-> rootOf[b]]

\* Variant of BindBody that tests the root after the bindings were set up.
BindBodyChecksRootLast(bs, b, r, d) ==
    LET x == RunBind(bs, b, BindSteps(d), 1) IN
    IF RootUsable(r) THEN x ELSE [x EXCEPT !.threw = TRUE]

\* The body of bind: the root test comes first and throws a BindingError.
BindBody(bs, b, r, d) ==
    IF RootUsable(r) THEN RunBind(bs, b, BindSteps(d), 1)
    ELSE [bs EXCEPT !.threw = TRUE]

\* bind(root, bindings) for call b; rootOf[b] is the root the caller passes.
Bind(b, r, d) ==
    /\ bound[b] = "none"
    /\ rootOf[b] = r
    /\ LET bs == BindBody(BindStart(b, d), b, r, d)
       IN /\ bound' = [bound EXCEPT ![b] = IF bs.threw THEN "threw" ELSE "ok"]
          /\ declOf' = [declOf EXCEPT ![b] = d]
          /\ dom' = bs.dom
          /\ writeLog' = bs.log
          /\ reported' = bs.rep
          /\ children' = [children EXCEPT ![b] = bs.ch]
          /\ eventNames' = [eventNames EXCEPT ![b] = IF bs.threw THEN {} ELSE bs.names]
          /\ eventSubs' = [eventSubs EXCEPT ![b] = bs.es]
          /\ listeners' = bs.ls
    /\ UNCHANGED <<broken, rootOf, mvu, subClosed, received, emitLog, disposed,
                   clicks, lastClick, nav>>

(***************************************************************************)
(* A sink stream of the declaration emits a value.                         *)
(***************************************************************************)
Emit(b, en, v) ==
    /\ bound[b] # "none"
    /\ en \in SinkEntries(declOf[b])
    /\ Len(emitLog) < MaxEmit
    /\ LET st == Deliver([dom |-> dom, log |-> writeLog, rep |-> reported,
                          ch |-> children[b]], b, en.kind, en.key, 1, v)
       IN /\ dom' = st.dom
          /\ writeLog' = st.log
          /\ reported' = st.rep
          /\ children' = [children EXCEPT ![b] = st.ch]
    /\ emitLog' = Append(emitLog, [bind |-> b, kind |-> en.kind, key |-> en.key, val |-> v])
    /\ UNCHANGED <<broken, bound, declOf, rootOf, mvu, subClosed, eventNames, eventSubs, listeners,
                   received, disposed, clicks,
                   lastClick, nav>>

(***************************************************************************)
(* dispose(): sub.unsubscribe(), then the (always empty) cleanupFns.       *)
(***************************************************************************)
\* Variant of UnsubscribeChild that runs the teardown but leaves the subscription open.
UnsubscribeChildLeavesOpen(ch) == [ch EXCEPT !.unsubs = @ + 1]

\* Subscription.unsubscribe() of one child: a closed subscription returns at once.
UnsubscribeChild(ch) ==
    IF ch.closed THEN ch ELSE [ch EXCEPT !.closed = TRUE, !.unsubs = @ + 1]

\* Variant of TearDownCallbacks that leaves the callbacks subscribed.
TearDownCallbacksNone(r, b, chs, i) == r

RECURSIVE TearDownCallbacks(_, _, _, _)
\* The teardown of the callback subscriptions still open: they leave events$[name].
TearDownCallbacks(r, b, chs, i) ==
    IF i > Len(chs) THEN r
    ELSE TearDownCallbacks(
             IF chs[i].kind = "events" /\ ~chs[i].closed
             THEN ShareUnsubscribe(r.es, r.ls, b, chs[i].key, Callback) ELSE r,
             b, chs, i + 1)

\* Variant of CompositeOpen with the test inverted.
CompositeOpenInverted(b) == subClosed[b]

\* Whether sub.unsubscribe() runs its teardown: only while the composite is open.
CompositeOpen(b) == ~subClosed[b]

Dispose(b) ==
    /\ bound[b] = "ok"
    /\ disposed' = [disposed EXCEPT ![b] = IF @ = "no" THEN "once" ELSE "again"]
    /\ IF CompositeOpen(b)
       THEN LET r == TearDownCallbacks([es |-> eventSubs[b], ls |-> listeners],
                                       b, children[b], 1)
            IN /\ subClosed' = [subClosed EXCEPT ![b] = TRUE]
               /\ children' = [children EXCEPT ![b] =
                      [i \in DOMAIN children[b] |-> UnsubscribeChild(children[b][i])]]
               /\ eventSubs' = [eventSubs EXCEPT ![b] = r.es]
               /\ listeners' = r.ls
       ELSE UNCHANGED <<subClosed, children, eventSubs, listeners, nav>>
    /\ UNCHANGED <<dom, broken, bound, declOf, rootOf, mvu, eventNames, received, writeLog, emitLog,
                   reported, clicks, lastClick, nav>>

(***************************************************************************)
(* Consumers of events$ and clicks.                                        *)
(***************************************************************************)
\* Variant of Replayed for a stream that keeps its last event for newcomers.
ReplayedLast(b, name) ==
    IF lastClick \in SourcesOf(name) /\ listeners[lastClick][b] > 0 THEN 1 ELSE 0

\* The events share() hands a new subscriber at subscription: it keeps none.
Replayed(b, name) == 0

SubscribeEvents(b, name, c) ==
    /\ bound[b] = "ok"
    /\ name \in eventNames[b]
    /\ c \notin eventSubs[b][name]
    /\ LET r == ShareSubscribe(eventSubs[b], listeners, b, name, c) IN
       /\ eventSubs' = [eventSubs EXCEPT ![b] = r.es]
       /\ listeners' = r.ls
    /\ received' = [received EXCEPT ![b][name][c] = @ + Replayed(b, name)]
    /\ UNCHANGED <<dom, broken, bound, declOf, rootOf, mvu, children, subClosed, eventNames,
                   writeLog, emitLog, reported, disposed, clicks, lastClick, nav>>

UnsubscribeEvents(b, name, c) ==
    /\ bound[b] = "ok"
    /\ c \in eventSubs[b][name]
    /\ LET r == ShareUnsubscribe(eventSubs[b], listeners, b, name, c) IN
       /\ eventSubs' = [eventSubs EXCEPT ![b] = r.es]
       /\ listeners' = r.ls
    /\ UNCHANGED <<dom, broken, bound, declOf, rootOf, mvu, children, subClosed, eventNames, received,
                   writeLog, emitLog, reported, disposed, clicks,
                   lastClick, nav>>

\* What one click on e delivers to subscriber `who` of events$[name] of bind b:
\* every native listener of that bind on e emits once into the shared stream.
Delivered(b, name, who, e) ==
    IF Page[e].data["data-on"] = name /\ who \in eventSubs[b][name]
    THEN listeners[e][b] ELSE 0

\* A click on element e (no marked element of the page is nested in another).
Click(e) ==
    /\ clicks < MaxClicks
    /\ clicks' = clicks + 1
    /\ lastClick' = e
    /\ received' = [b \in Binds |-> [n \in Names |-> [w \in Subscribers |->
                        received[b][n][w] + Delivered(b, n, w, e)]]]
    /\ UNCHANGED <<dom, broken, bound, declOf, rootOf, mvu, children, subClosed, eventNames, eventSubs,
                   listeners, writeLog, emitLog, reported, disposed, nav>>

(***************************************************************************)
(* runMVU(cfg): msg$ is a Subject, model$ folds it with update from init   *)
(* and replays its current value; view(model$) is bound to the root with   *)
(* bindTemplate; the streams eventsToMsg merges and the external stream    *)
(* are subscribed with msg$ as the observer.  The Subscription returned    *)
(* (rootSub) holds the binding's subscription and those two.               *)
(***************************************************************************)
\* The bind call runMVU makes.
App == 1

Msgs == {"Inc", "Reset"}

\* The update function of the configuration: Inc steps the model through
\* null, 1, "1" and round again; Reset returns it to null.
update(model, msg) ==
    CASE msg = "Reset" -> "null"
      [] model = "null" -> "n1"
      [] model = "n1" -> "s1"
      [] OTHER -> "null"

\* eventsToMsg: every event of a stream it merges becomes an Inc message.
EventsToMsg(name) == "Inc"

\* view(model$): a text sink and a disabled sink, both model$.pipe(map(...)).
DeclView ==
    [text |-> <<".test">>, value |-> <<>>, html |-> <<>>, className |-> <<>>,
     disabled |-> <<"dec">>, events |-> <<>>, custom |-> <<>>,
     seed |-> {Seed("text", ".test", ModelStream),
               Seed("disabled", "dec", ModelStream)}]

\* The configurations: eventsToMsg absent, or merging the streams of the
\* names it looks up in events$; externalMsgs$ absent or a hot stream.
Configs ==
    {[init |-> i, view |-> DeclView, eventsToMsg |-> t, names |-> ns,
      externalMsgs |-> x] :
        i \in {"null", "n1"}, t \in BOOLEAN, ns \in {{"go"}, {"nope"}},
        x \in BOOLEAN}

RECURSIVE SubscribeNames(_, _, _, _)
\* merge(...streams).subscribe: subscribes every merged stream.
SubscribeNames(r, b, names, who) ==
    IF names = {} THEN r
    ELSE LET n == CHOOSE x \in names : TRUE IN
         SubscribeNames(ShareSubscribe(r.es, r.ls, b, n, who), b, names \ {n}, who)

\* Variant of UnsubscribeNames that leaves the merged streams subscribed.
UnsubscribeNamesKeeps(r, b, names, who) == r

RECURSIVE UnsubscribeNames(_, _, _, _)
\* The teardown of the merge subscription: leaves every merged stream.
UnsubscribeNames(r, b, names, who) ==
    IF names = {} THEN r
    ELSE LET n == CHOOSE x \in names : TRUE IN
         UnsubscribeNames(ShareUnsubscribe(r.es, r.ls, b, n, who), b, names \ {n}, who)

\* Variant of DeliverModel in which model$ emits to its first subscription only.
DeliverModelFirstOnly(st, b, c, v) ==
    IF c > Len(st.ch) \/ st.ch[c].kind = "events" \/ st.ch[c].closed THEN st
    ELSE DeliverToChild(st, b, c, v)

RECURSIVE DeliverModel(_, _, _, _)
\* model$ emits v: every open sink subscription, in subscription order.
DeliverModel(st, b, c, v) ==
    IF c > Len(st.ch) THEN st
    ELSE LET ch == st.ch[c]
             st1 == IF ch.kind # "events" /\ ~ch.closed
                    THEN DeliverToChild(st, b, c, v) ELSE st
         IN DeliverModel(st1, b, c + 1, v)

\* msg$.next(m) of run h: a stopped Subject ignores the value; otherwise scan
\* folds it into the model and model$ emits the new model.
MsgNext(h, mv, st, m) ==
    IF mv.stopped \/ ~mv.connected THEN [mv |-> mv, st |-> st]
    ELSE LET x == update(mv.model, m) IN
         [mv |-> [mv EXCEPT !.model = x], st |-> DeliverModel(st, h, 1, x)]

\* msg$.complete(), called when a stream subscribed with msg$ as its observer
\* completes: the Subject stops, model$ completes and with it every sink
\* subscription.
MsgComplete(mv, chs) ==
    IF mv.stopped THEN [mv |-> mv, ch |-> chs]
    ELSE [mv |-> [mv EXCEPT !.stopped = TRUE],
          ch |-> [i \in DOMAIN chs |->
                     IF chs[i].kind # "events" THEN UnsubscribeChild(chs[i])
                     ELSE chs[i]]]

\* runMVU(cfg) for run h, on the root rootOf[h].
RunMVU(h, cfg) ==
    /\ mvu[h].status = "idle"
    /\ bound[h] = "none"
    /\ LET d == cfg.view
           bs == BindBody([BindStart(h, d) EXCEPT !.init = cfg.init],
                          h, rootOf[h], d)
           names == IF cfg.eventsToMsg /\ ~bs.threw THEN cfg.names \cap bs.names
                    ELSE {}
           r == SubscribeNames([es |-> bs.es, ls |-> bs.ls], h, names, DomMsgs)
           mv == [status |-> IF bs.threw THEN "threw" ELSE "running",
                  init |-> cfg.init,
                  model |-> bs.buf,
                  connected |-> bs.conn,
                  stopped |-> FALSE,
                  ext |-> IF cfg.externalMsgs /\ ~bs.threw THEN "open" ELSE "absent",
                  emitted |-> 0, msgs |-> <<>>, names |-> names]
           \* merge() of no stream completes at subscription
           fin == IF cfg.eventsToMsg /\ ~bs.threw /\ names = {}
                  THEN MsgComplete(mv, bs.ch)
                  ELSE [mv |-> mv, ch |-> bs.ch]
       IN /\ bound' = [bound EXCEPT ![h] = IF bs.threw THEN "threw" ELSE "ok"]
          /\ declOf' = [declOf EXCEPT ![h] = d]
          /\ dom' = bs.dom
          /\ writeLog' = bs.log
          /\ reported' = bs.rep
          /\ children' = [children EXCEPT ![h] = fin.ch]
          /\ eventNames' = [eventNames EXCEPT ![h] = IF bs.threw THEN {} ELSE bs.names]
          /\ eventSubs' = [eventSubs EXCEPT ![h] = r.es]
          /\ listeners' = r.ls
          /\ mvu' = [mvu EXCEPT ![h] = fin.mv]
    /\ UNCHANGED <<broken, rootOf, subClosed, received, emitLog, disposed, clicks,
                   lastClick, nav>>

\* Whether a click on e reaches the message channel of run h: the run's
\* subscription to events$[name] is open and its listener is on e.
Hits(h, e) ==
    LET n == Page[e].data["data-on"] IN
    n \in Names /\ Delivered(h, n, DomMsgs, e) > 0

\* The listener of run h on e runs: the event eventsToMsg maps goes to msg$.
ClickRun(s, h, e) ==
    IF ~Hits(h, e) THEN s
    ELSE LET m == EventsToMsg(Page[e].data["data-on"])
             x == MsgNext(h, s.mvu[h], [dom |-> s.dom, log |-> s.log, rep |-> s.rep,
                                        ch |-> s.ch[h]], m)
         IN [mvu |-> [s.mvu EXCEPT ![h] = [x.mv EXCEPT !.msgs = Append(@, m),
                                                       !.emitted = @ + 1]],
             dom |-> x.st.dom, log |-> x.st.log, rep |-> x.st.rep,
             ch |-> [s.ch EXCEPT ![h] = x.st.ch]]

\* A click on element e while a runMVU handle exists: the listeners on e run
\* in the order they were registered (run 1 is started before run 2).
MvuClick(e) ==
    /\ \E h \in Binds : mvu[h].status # "idle"
    /\ clicks < MaxClicks
    /\ \A h \in Binds : Hits(h, e) => mvu[h].emitted < MaxMsgs
    /\ LET s == ClickRun(ClickRun([mvu |-> mvu, dom |-> dom, log |-> writeLog,
                                   rep |-> reported, ch |-> children], 1, e), 2, e)
       IN /\ mvu' = s.mvu
          /\ dom' = s.dom
          /\ writeLog' = s.log
          /\ reported' = s.rep
          /\ children' = s.ch
    /\ clicks' = clicks + 1
    /\ lastClick' = e
    /\ received' = [b \in Binds |-> [n \in Names |-> [w \in Subscribers |->
                        received[b][n][w] + Delivered(b, n, w, e)]]]
    /\ UNCHANGED <<broken, bound, declOf, rootOf, subClosed, eventNames, eventSubs,
                   listeners, emitLog, disposed, nav>>

\* The external stream of run h emits message m; it reaches msg$ while
\* runMVU's subscription to the stream is open.
ExternalMsg(h, m) ==
    /\ mvu[h].ext \in {"open", "closed"}
    /\ mvu[h].emitted < MaxMsgs
    /\ IF mvu[h].ext = "open"
       THEN LET x == MsgNext(h, mvu[h], [dom |-> dom, log |-> writeLog,
                                         rep |-> reported, ch |-> children[h]], m)
            IN /\ mvu' = [mvu EXCEPT ![h] = [x.mv EXCEPT !.msgs = Append(@, m),
                                                         !.emitted = @ + 1]]
               /\ dom' = x.st.dom
               /\ writeLog' = x.st.log
               /\ reported' = x.st.rep
               /\ children' = [children EXCEPT ![h] = x.st.ch]
       ELSE /\ mvu' = [mvu EXCEPT ![h].emitted = @ + 1]
            /\ UNCHANGED <<dom, writeLog, reported, children, nav>>
    /\ UNCHANGED <<broken, bound, declOf, rootOf, subClosed, eventNames, eventSubs,
                   listeners, received, emitLog, disposed, clicks, lastClick, nav>>

\* The external stream completes; while subscribed it completes msg$.
ExternalComplete(h) ==
    /\ mvu[h].ext \in {"open", "closed"}
    /\ LET fin == IF mvu[h].ext = "open" THEN MsgComplete(mvu[h], children[h])
                  ELSE [mv |-> mvu[h], ch |-> children[h]]
       IN /\ mvu' = [mvu EXCEPT ![h] = [fin.mv EXCEPT !.ext = "done"]]
          /\ children' = [children EXCEPT ![h] = fin.ch]
    /\ UNCHANGED <<dom, broken, bound, declOf, rootOf, subClosed, eventNames, eventSubs,
                   listeners, received, writeLog, emitLog, reported, disposed, clicks,
                   lastClick, nav>>

\* The teardown of externalMsgs$.subscribe(msg$).
CloseExternal(ext) == IF ext = "open" THEN "closed" ELSE ext

\* rootSub.unsubscribe(): the binding's subscription, then the subscription
\* to the merged event streams, then the one to the external stream.
MvuUnsubscribe(h) ==
    /\ mvu[h].status = "running"
    /\ LET r0 == TearDownCallbacks([es |-> eventSubs[h], ls |-> listeners],
                                   h, children[h], 1)
           r == UnsubscribeNames(r0, h, mvu[h].names, DomMsgs)
       IN /\ eventSubs' = [eventSubs EXCEPT ![h] = r.es]
          /\ listeners' = r.ls
    /\ subClosed' = [subClosed EXCEPT ![h] = TRUE]
    /\ children' = [children EXCEPT ![h] =
           [i \in DOMAIN children[h] |-> UnsubscribeChild(children[h][i])]]
    /\ mvu' = [mvu EXCEPT ![h] = [@ EXCEPT !.status = "unsubscribed",
                                           !.connected = FALSE,
                                           !.ext = CloseExternal(@)]]
    /\ UNCHANGED <<dom, broken, bound, declOf, rootOf, eventNames, received, writeLog,
                   emitLog, reported, disposed, clicks, lastClick, nav>>

(***************************************************************************)
(* The hash router: window.location.hash, parseRoute and the stream of     *)
(* createHashRoute$().                                                     *)
(***************************************************************************)
MaxNav == 3

\* The location hashes: none, the root, and two spellings of the about page.
Hashes == {"", "#/", "#/about", "#about"}

\* parseRoute(rawHash): the raw hash ('#/' for an empty one), the path
\* normalized to start with '/', and its segments.
parseRoute(rawHash) ==
    LET hash == IF rawHash = "" THEN "#/" ELSE rawHash
        path == IF hash = "#/" THEN "/" ELSE "/about"
    IN [hash |-> hash, path |-> path,
        segments |-> IF path = "/" THEN <<>> ELSE <<"about">>]

\* const getRoute = () => parseRoute(window.location.hash || '#/')
getRoute(w) == parseRoute(IF w.hash = "" THEN "#/" ELSE w.hash)

InitWin == [hash |-> "", pending |-> 0, navs |-> 0]

\* window.location.hash = h: an assignment that changes the fragment queues a
\* hashchange event, which is dispatched later.
AssignHash(w, h) ==
    IF h = w.hash THEN w ELSE [w EXCEPT !.hash = h, !.pending = @ + 1]

\* The application or the user navigates to hash h.
Navigate(h) ==
    /\ win.navs < MaxNav
    /\ win' = [AssignHash(win, h) EXCEPT !.navs = @ + 1]
    /\ UNCHANGED <<page, route, links>>

\* The place of a route where there is none yet.
Absent == [hash |-> NoValue, path |-> NoValue, segments |-> <<>>]

\* createHashRoute$() has not been called.
NoRoute ==
    [created |-> FALSE, start |-> Absent, subs |-> {}, prev |-> Absent,
     buffer |-> Absent, got |-> [c \in Consumers |-> <<>>]]

\* createHashRoute$(): builds the pipeline; the argument of startWith,
\* getRoute(), is evaluated by this call.
CreateHashRoute ==
    /\ ~route.created
    /\ route' = [route EXCEPT !.created = TRUE, !.start = getRoute(win)]
    /\ UNCHANGED <<page, win, links>>

\* distinctUntilChanged((a, b) => a.hash === b.hash)
DistinctHash(prev, r) == prev = Absent \/ prev.hash # r.hash

\* A consumer subscribes.  The first subscriber connects shareReplay to the
\* source: the hashchange listener is added and startWith emits its value.
\* A later subscriber gets the buffered route.
RouteSubscribe(c) ==
    /\ route.created
    /\ c \notin route.subs
    /\ route' = IF route.subs = {}
                THEN [route EXCEPT !.subs = {c}, !.prev = route.start,
                                   !.buffer = route.start,
                                   !.got[c] = <<route.start>>]
                ELSE [route EXCEPT !.subs = @ \cup {c},
                                   !.got[c] = <<route.buffer>>]
    /\ UNCHANGED <<page, win, links>>

\* A consumer unsubscribes; refCount: true disconnects from the source and
\* drops the buffer when the last one leaves.
RouteUnsubscribe(c) ==
    /\ c \in route.subs
    /\ route' = IF route.subs = {c}
                THEN [route EXCEPT !.subs = {}, !.prev = Absent, !.buffer = Absent]
                ELSE [route EXCEPT !.subs = @ \ {c}]
    /\ UNCHANGED <<page, win, links>>

\* A queued hashchange event is dispatched: while the stream is connected,
\* map(getRoute) reads the location as it is now and distinctUntilChanged
\* passes the route if its hash differs from the last one passed.
HashChange ==
    /\ win.pending > 0
    /\ win' = [win EXCEPT !.pending = @ - 1]
    /\ LET r == getRoute(win) IN
       route' = IF route.subs # {} /\ DistinctHash(route.prev, r)
                THEN [route EXCEPT !.prev = r, !.buffer = r,
                                   !.got = [c \in Consumers |->
                                              IF c \in route.subs THEN Append(@[c], r)
                                              ELSE @[c]]]
                ELSE route
    /\ UNCHANGED <<page, links>>

(***************************************************************************)
(* bindHashLinks(root): the anchors of the page, a click's MouseEvent, the *)
(* click listener of each a[data-link] anchor, and the Subscription that   *)
(* removes the listeners.                                                  *)
(***************************************************************************)
MaxLinkClicks == 2

\* The anchors under the root: marked ones with a hash href, a path href, an
\* empty href and no href, and an unmarked one with a hash href.
LinkPage ==
    << [link |-> TRUE,  href |-> "#/about"],
       [link |-> TRUE,  href |-> "/external"],
       [link |-> TRUE,  href |-> ""],
       [link |-> TRUE,  href |-> NoAttr],
       [link |-> FALSE, href |-> "#about"] >>

Anchors == DOMAIN LinkPage

\* The modifier key held during a click, if any.
Keys == {"none", "meta", "ctrl", "shift", "alt"}

\* The click events: already default-prevented or not, primary button (0) or
\* auxiliary button (1), and the key held.
MouseEvents ==
    [defaultPrevented : BOOLEAN, button : {0, 1}, key : Keys]

NoMouseEvent == [defaultPrevented |-> FALSE, button |-> 0, key |-> "none"]

\* bindHashLinks has not been called.
NoLinks ==
    [status |-> "none", ls |-> [a \in Anchors |-> 0], clicks |-> 0, intercepts |-> 0,
     last |-> [a |-> 0, ev |-> NoMouseEvent, prevented |-> FALSE]]

\* href.startsWith('#')
StartsWithHash(href) == href \in {"#/", "#/about", "#about"}

\* Variant of onClick that does not look at the button.
onClickAnyButton(r, a, ev) ==
    IF r.prevented \/ ev.key # "none" THEN r
    ELSE LET href == LinkPage[a].href IN
         IF href = NoAttr \/ href = "" THEN r
         ELSE IF ~StartsWithHash(href) THEN r
         ELSE [prevented |-> TRUE, win |-> AssignHash(r.win, href), did |-> TRUE]

\* onClick(ev) of anchor a.  r.prevented is ev.defaultPrevented as the
\* listener finds it.
onClick(r, a, ev) ==
    IF r.prevented \/ ev.button # 0 \/ ev.key # "none" THEN r
    ELSE LET href == LinkPage[a].href IN
         IF href = NoAttr \/ href = "" THEN r
         ELSE IF ~StartsWithHash(href) THEN r
         ELSE [prevented |-> TRUE, win |-> AssignHash(r.win, href), did |-> TRUE]

\* bindHashLinks(root): one click listener on every a[data-link] anchor.
BindHashLinks ==
    /\ links.status = "none"
    /\ links' = [links EXCEPT !.status = "bound",
                              !.ls = [a \in Anchors |-> IF LinkPage[a].link THEN 1 ELSE 0]]
    /\ UNCHANGED <<page, win, route>>

\* The returned Subscription is unsubscribed: every listener is removed.
LinksUnsubscribe ==
    /\ links.status = "bound"
    /\ links' = [links EXCEPT !.status = "unsubscribed", !.ls = [a \in Anchors |-> 0]]
    /\ UNCHANGED <<page, win, route>>

\* A click with event ev on anchor a: the listener on a, if there is one,
\* runs.  What the browser does with a click nobody prevented is not part of
\* the model.
LinkClick(a, ev) ==
    /\ links.clicks < MaxLinkClicks
    /\ LET r0 == [prevented |-> ev.defaultPrevented, win |-> win, did |-> FALSE]
           r == IF links.ls[a] > 0 THEN onClick(r0, a, ev) ELSE r0
       IN /\ win' = r.win
          /\ links' = [links EXCEPT !.clicks = @ + 1,
                                    !.intercepts = IF r.did THEN @ + 1 ELSE @,
                                    !.last = [a |-> a, ev |-> ev,
                                              prevented |-> r.prevented]]
    /\ UNCHANGED <<page, route>>

(***************************************************************************)
(* Specifications.                                                         *)
(***************************************************************************)
\* No runMVU call has been made.
Idle ==
    [status |-> "idle", init |-> NoValue, model |-> NoValue, connected |-> FALSE,
     stopped |-> FALSE, ext |-> "absent", emitted |-> 0, msgs |-> <<>>,
     names |-> {}]

InitDom ==
    [e \in Elems |-> [content |-> "init", value |-> "init", className |-> Page[e].cls,
                      disabled |-> "false", attr |-> NoAttr, attached |-> TRUE]]

\* The state before any call, with the roots in R the callers will pass.
InitFor(R) ==
    /\ dom = InitDom
    /\ broken \in {{}, {1}}
    /\ bound = [b \in Binds |-> "none"]
    /\ declOf = [b \in Binds |-> NoDecl]
    /\ rootOf \in R
    /\ mvu = [b \in Binds |-> Idle]
    /\ children = [b \in Binds |-> <<>>]
    /\ subClosed = [b \in Binds |-> FALSE]
    /\ eventNames = [b \in Binds |-> {}]
    /\ eventSubs = [b \in Binds |-> [n \in Names |-> {}]]
    /\ listeners = [e \in Elems |-> [b \in Binds |-> 0]]
    /\ received = [b \in Binds |-> [n \in Names |-> [w \in Subscribers |-> 0]]]
    /\ writeLog = <<>>
    /\ emitLog = <<>>
    /\ reported = 0
    /\ disposed = [b \in Binds |-> "no"]
    /\ clicks = 0
    /\ lastClick = 0
    /\ win = InitWin
    /\ route = NoRoute
    /\ links = NoLinks

\* Call 1 is made with any of the root arguments, call 2 with the page root.
Init == InitFor({[b \in Binds |-> IF b = 1 THEN r ELSE "element"] : r \in Roots})

SinkDecls ==
    {DeclText, DeclValue, DeclMarkup, DeclDisabled, DeclSelectors, DeclMalformed,
     DeclMalformedMarkup}

\* One bind call, its sink streams emitting, and dispose().
SinkNext ==
    \/ \E r \in Roots, d \in SinkDecls : Bind(1, r, d)
    \/ \E en \in SinkEntries(declOf[1]), v \in Vals : Emit(1, en, v)
    \/ Dispose(1)

SinkSpec == Init /\ [][SinkNext]_vars

ReplayDecls == {DeclReplay(v, w) : v, w \in {"null", "s1"}}

\* One bind call whose streams have a current value at subscription time.
ReplayNext ==
    \/ \E d \in ReplayDecls : Bind(1, "element", d)
    \/ \E en \in SinkEntries(declOf[1]), v \in Vals : Emit(1, en, v)
    \/ Dispose(1)

ReplayInit == Init /\ rootOf[1] = "element"

ReplaySpec == ReplayInit /\ [][ReplayNext]_vars

\* Two bind calls on the same root, consumers of their events$, and clicks.
EventNext ==
    \/ Bind(1, "element", DeclEvents)
    \/ Bind(2, "element", DeclNoCallbacks)
    \/ \E b \in Binds, n \in Names, c \in Consumers : SubscribeEvents(b, n, c)
    \/ \E b \in Binds, n \in Names, c \in Consumers : UnsubscribeEvents(b, n, c)
    \/ \E e \in Elems : Click(e)
    \/ \E b \in Binds : Dispose(b)

EventInit == Init /\ broken = {} /\ rootOf[1] = "element"

EventSpec == EventInit /\ [][EventNext]_vars

\* One bind call with sinks and a callback, a consumer of its events$, clicks,
\* emissions, and dispose().
DisposeNext ==
    \/ Bind(1, "element", DeclText)
    \/ \E en \in SinkEntries(declOf[1]) : Emit(1, en, "n1")
    \/ \E n \in Names : SubscribeEvents(1, n, "c1")
    \/ \E n \in Names : UnsubscribeEvents(1, n, "c1")
    \/ \E e \in Elems : Click(e)
    \/ Dispose(1)

DisposeSpec == EventInit /\ [][DisposeNext]_vars

\* One runMVU call, clicks, the external stream, and rootSub.unsubscribe().
MvuNext ==
    \/ \E cfg \in Configs : RunMVU(App, cfg)
    \/ \E e \in Elems : MvuClick(e)
    \/ \E m \in Msgs : ExternalMsg(App, m)
    \/ ExternalComplete(App)
    \/ MvuUnsubscribe(App)

MvuSpec == EventInit /\ [][MvuNext]_vars

\* Component.run(root) is runMVU({...cfg, root}); the counter component has a
\* view, DOM events and no external stream.
IslandConfigs ==
    {c \in Configs : c.eventsToMsg /\ c.names = {"go"} /\ ~c.externalMsgs}

\* The root pairs two run calls are made with: the two sibling islands, and
\* the page root with an island inside it.
IslandRootPairs ==
    {[b \in Binds |-> IF b = 1 THEN r ELSE "counter-2"] : r \in {"counter-1", "element"}}

IslandInit == InitFor(IslandRootPairs) /\ broken = {}

\* Two Component.run calls (run 1 first), clicks, and each handle's
\* unsubscribe().
IslandNext ==
    \/ \E cfg \in IslandConfigs : RunMVU(1, cfg)
    \/ \E cfg \in IslandConfigs : mvu[1].status # "idle" /\ RunMVU(2, cfg)
    \/ \E e \in Elems : MvuClick(e)
    \/ \E h \in Binds : MvuUnsubscribe(h)

IslandSpec == IslandInit /\ [][IslandNext]_vars

\* A text sink (one subscription for all its elements) and a markup sink (one
\* subscription per element) whose keys match the same elements.
DeclCapture ==
    [text |-> <<".test">>, value |-> <<>>, html |-> <<"content">>,
     className |-> <<>>, disabled |-> <<>>, events |-> <<>>, custom |-> <<>>,
     seed |-> {}]

\* The elements that are removed from and inserted into the document.
Movable == {1, 2}

\* Element e is removed from the document: by the application, or by a markup
\* sink that rewrites the inner markup of an element enclosing it.
Detach(e) ==
    /\ dom[e].attached
    /\ dom' = [dom EXCEPT ![e].attached = FALSE]
    /\ UNCHANGED <<broken, bound, declOf, rootOf, mvu, children, subClosed, eventNames,
                   eventSubs, listeners, received, writeLog, emitLog, reported,
                   disposed, clicks, lastClick, nav>>

\* Element e is inserted into the document, as the markup written by a
\* markup sink on an enclosing element inserts new elements.
Attach(e) ==
    /\ ~dom[e].attached
    /\ dom' = [dom EXCEPT ![e].attached = TRUE]
    /\ UNCHANGED <<broken, bound, declOf, rootOf, mvu, children, subClosed, eventNames,
                   eventSubs, listeners, received, writeLog, emitLog, reported,
                   disposed, clicks, lastClick, nav>>

\* One bind call on a document whose elements come and go, before and after
\* the call, and the emissions of its two streams.
CaptureNext ==
    \/ Bind(1, "element", DeclCapture)
    \/ \E en \in SinkEntries(DeclCapture), v \in {"n1", "s1"} : Emit(1, en, v)
    \/ \E e \in Movable : Detach(e)
    \/ \E e \in Movable : Attach(e)

CaptureSpec == EventInit /\ [][CaptureNext]_vars

\* The router: the stream is created once, consumers come and go, and the
\* location changes.
RouterNext ==
    \/ CreateHashRoute
    \/ \E h \in Hashes \ {""} : Navigate(h)
    \/ HashChange
    \/ \E c \in Consumers : RouteSubscribe(c)
    \/ \E c \in Consumers : RouteUnsubscribe(c)

RouterSpec == EventInit /\ [][RouterNext]_vars

\* One bindHashLinks call, clicks on the anchors, navigation back to the
\* root, and the Subscription's unsubscribe().
LinkNext ==
    \/ BindHashLinks
    \/ \E a \in Anchors, ev \in MouseEvents : LinkClick(a, ev)
    \/ LinksUnsubscribe
    \/ Navigate("#/")
    \/ HashChange

LinkSpec == EventInit /\ [][LinkNext]_vars

(***************************************************************************)
(* Reading the logs.                                                       *)
(***************************************************************************)
\* The values stream (kind, key) of bind b has emitted, oldest first.
Emitted(b, kind, key) ==
    LET sel == SelectSeq(emitLog,
                   LAMBDA r : r.bind = b /\ r.kind = kind /\ r.key = key)
    IN [i \in DOMAIN sel |-> sel[i].val]

\* The values sink (kind, key) of bind b has assigned to element e, oldest first.
Written(b, kind, key, e) ==
    LET sel == SelectSeq(writeLog,
                   LAMBDA w : w.bind = b /\ w.kind = kind /\ w.key = key /\ w.el = e)
    IN [i \in DOMAIN sel |-> sel[i].val]

RECURSIVE Dedup(_)
\* A sequence without its consecutive repetitions.
Dedup(q) ==
    IF Len(q) <= 1 THEN q
    ELSE IF q[1] = q[2] THEN Dedup(Tail(q))
    ELSE <<q[1]>> \o Dedup(Tail(q))

Rendered(kind, q) == [i \in DOMAIN q |-> Render(kind, q[i])]

Last(q) == q[Len(q)]

\* The step is an emission; LastEmit is then the emission of the step.
EmitStep == Len(emitLog') = Len(emitLog) + 1

LastEmit == emitLog'[Len(emitLog')]

\* The writes the step performed.
NewWrites == SubSeq(writeLog', Len(writeLog) + 1, Len(writeLog'))

\* The open subscriptions of stream (kind, key) of bind b.
OpenChildren(b, kind, key) ==
    {c \in DOMAIN children[b] :
        /\ children[b][c].kind = kind
        /\ children[b][c].key = key
        /\ ~children[b][c].closed}

\* The elements sink (kind, key) of bind b holds and whose handler assigns.
Writable(b, kind, key) ==
    {e \in Elems : /\ HandlerOutcome(kind, e) = "write"
                   /\ \E c \in OpenChildren(b, kind, key) :
                          \E i \in DOMAIN children[b][c].els : children[b][c].els[i] = e}

\* The sink that assigned property p of element e last (a record of writeLog),
\* if any write to it was made.
WritesTo(e, p) == SelectSeq(writeLog, LAMBDA w : w.el = e /\ Prop(w.kind) = p)

(***************************************************************************)
(* C1 as stated: after every emission of a sink's stream has been          *)
(* processed, the target property of each element of the sink equals the   *)
(* rendering of the emitted value.                                         *)
(***************************************************************************)
C1_LatestValueShown ==
    [][EmitStep =>
        \A e \in Writable(LastEmit.bind, LastEmit.kind, LastEmit.key) :
            dom'[e][Prop(LastEmit.kind)] = Render(LastEmit.kind, LastEmit.val)]_vars

(***************************************************************************)
(* C1 amended: while a sink is subscribed, the values it has assigned to   *)
(* each of its elements are, in order, the renderings of the values its    *)
(* stream has emitted (for text, value and custom-attribute sinks: of the  *)
(* emitted values without consecutive repetitions), and the property shows *)
(* the rendering of the latest emitted value as long as no other sink has  *)
(* assigned that property of the element after this sink's last write.     *)
(***************************************************************************)
C1_AppliedInOrder ==
    \A b \in Binds : \A en \in SinkEntries(declOf[b]) :
        \A e \in Writable(b, en.kind, en.key) :
            LET em == Emitted(b, en.kind, en.key)
                wr == Written(b, en.kind, en.key, e)
                to == WritesTo(e, Prop(en.kind))
            IN /\ wr = Rendered(en.kind,
                           IF UsesBindObservable(en.kind) THEN Dedup(em) ELSE em)
               /\ (/\ to # <<>>
                   /\ Last(to).bind = b
                   /\ Last(to).kind = en.kind
                   /\ Last(to).key = en.key)
                  => dom[e][Prop(en.kind)] = Render(en.kind, Last(em))

\* Two emissions of one text sink reached its elements, the second a different
\* value with the same rendering.
C1_Witness ==
    /\ declOf[1] = DeclText
    /\ broken = {}
    /\ Emitted(1, "text", ".test") = <<"n1", "s1", "null">>
    /\ Written(1, "text", ".test", 2) = <<"1", "1", "">>
    /\ dom[2].content = ""

(***************************************************************************)
(* C2 as stated: for every sink kind, an emission equal to the stream's    *)
(* previous emission performs no write.                                    *)
(***************************************************************************)
C2_RepeatedValueWritesNothing ==
    [][(/\ EmitStep
        /\ LET em == Emitted(LastEmit.bind, LastEmit.kind, LastEmit.key)
           IN em # <<>> /\ Last(em) = LastEmit.val)
       => writeLog' = writeLog]_vars

\* Two equal emissions in a row on a markup stream, both written.
C2_Witness ==
    /\ declOf[1] = DeclMarkup
    /\ broken = {}
    /\ Emitted(1, "html", "content") = <<"n1", "n1">>
    /\ Written(1, "html", "content", 1) = <<"1", "1">>

(***************************************************************************)
(* C3 as stated: with bind called twice on the same root and consumers     *)
(* subscribed to the event streams of both results, no marked element has  *)
(* more than one native click listener.                                    *)
(***************************************************************************)
NativeListeners(e) == listeners[e][1] + listeners[e][2]

C3_OneListenerAcrossBindCalls == \A e \in Elems : NativeListeners(e) <= 1

C5_NoMutationAfterDispose ==
    [][(EmitStep /\ disposed[LastEmit.bind] # "no") =>
        /\ dom' = dom
        /\ writeLog' = writeLog
        /\ reported' = reported
        /\ children' = children]_vars

\* Markup and class sinks write on every emission while subscribed: emissions
\* without any write were made after dispose().
C5_Witness ==
    /\ declOf[1] = DeclMarkup
    /\ broken = {}
    /\ disposed[1] # "no"
    /\ Len(emitLog) >= 2
    /\ writeLog = <<>>

(***************************************************************************)
(* C6: after dispose() every subscription of the bind call is closed and   *)
(* has been unsubscribed exactly once, however often dispose() is called,  *)
(* and a further dispose() call changes nothing.                           *)
(***************************************************************************)
C6_DisposeIdempotent ==
    [][/\ \A b \in Binds : \A c \in DOMAIN children'[b] :
            /\ children'[b][c].unsubs <= 1
            /\ disposed'[b] # "no" =>
                   children'[b][c].closed /\ children'[b][c].unsubs = 1
       /\ \A b \in Binds :
            (disposed[b] # "no" /\ disposed'[b] # disposed[b]) =>
                UNCHANGED <<dom, broken, bound, declOf, rootOf, mvu, children, subClosed, eventNames,
                            eventSubs, listeners, received, writeLog, emitLog, reported,
                            clicks, lastClick, nav>>]_vars

\* dispose() was called a second time on a binding with subscriptions.
C6_Witness ==
    /\ disposed[1] = "again"
    /\ Len(children[1]) >= 2
    /\ \E c \in DOMAIN children[1] : children[1][c].kind = "events"

(***************************************************************************)
(* C7: when the handler throws for one element of a sink, the other        *)
(* elements of the sink are still assigned the emitted value, every        *)
(* subscription stays open, and the failures are only reported.            *)
(***************************************************************************)
\* The emission of the step passes the sink's filter.
Passes ==
    LET em == Emitted(LastEmit.bind, LastEmit.kind, LastEmit.key) IN
    \/ ~UsesBindObservable(LastEmit.kind)
    \/ em = <<>>
    \/ Last(em) # LastEmit.val

\* The elements sink (kind, key) of bind b holds and whose handler throws.
Throwing(b, kind, key) ==
    {e \in Elems : /\ HandlerOutcome(kind, e) = "throw"
                   /\ \E c \in OpenChildren(b, kind, key) :
                          \E i \in DOMAIN children[b][c].els : children[b][c].els[i] = e}

C7_FailureIsolated ==
    [][(EmitStep /\ Passes /\ broken # {}) =>
        LET b == LastEmit.bind
            kind == LastEmit.kind
            key == LastEmit.key
        IN /\ \A e \in Writable(b, kind, key) :
                  /\ dom'[e][Prop(kind)] = Render(kind, LastEmit.val)
                  /\ \E i \in DOMAIN NewWrites : NewWrites[i].el = e
           /\ reported' = reported + Cardinality(Throwing(b, kind, key))
           /\ \A c \in DOMAIN children[b] :
                  children'[b][c].closed = children[b][c].closed]_vars

\* The first element of a text sink is broken; the second was assigned two
\* emissions, each of which failed on the first.
C7_Witness ==
    /\ declOf[1] = DeclText
    /\ broken = {1}
    /\ reported = 2
    /\ Written(1, "text", ".test", 1) = <<>>
    /\ Written(1, "text", ".test", 2) = <<"1", "">>

(***************************************************************************)
(* C8 as stated: for every sink kind the elements of a sink are those the  *)
(* root's tree query returns for the key used as the selector.             *)
(***************************************************************************)
\* The elements the subscriptions of entry en of bind b hold.
Held(b, en) ==
    {e \in Elems : \E c \in DOMAIN children[b] :
        /\ children[b][c].kind = en.kind
        /\ children[b][c].key = en.key
        /\ \E i \in DOMAIN children[b][c].els : children[b][c].els[i] = e}

C8_KeyIsTheSelector ==
    \A b \in Binds : \A en \in SinkEntries(declOf[b]) :
        LET sel == ParseSelector(en.key) IN
        (bound[b] = "ok" /\ sel.t # "invalid")
            => Held(b, en) = {e \in Elems : Matches(e, sel)}

(***************************************************************************)
(* C9: an emission that passes the sink's filter assigns every element of  *)
(* the sink exactly once, in document order.                               *)
(***************************************************************************)
C9_AllElementsInDocumentOrder ==
    [][(EmitStep /\ Passes) =>
        LET ws == NewWrites
            W == Writable(LastEmit.bind, LastEmit.kind, LastEmit.key)
        IN /\ {ws[i].el : i \in DOMAIN ws} = W
           /\ Len(ws) = Cardinality(W)
           /\ \A i \in DOMAIN ws :
                  /\ ws[i].kind = LastEmit.kind
                  /\ ws[i].key = LastEmit.key
                  /\ ws[i].val = Render(LastEmit.kind, LastEmit.val)
           /\ \A i, j \in DOMAIN ws : i < j => ws[i].el < ws[j].el]_vars

\* A markup sink with two elements (one subscription per element) assigned
\* element 1 and then element 2 on one emission.
C9_Witness ==
    \E i \in DOMAIN writeLog :
        /\ i + 1 \in DOMAIN writeLog
        /\ writeLog[i].kind = "html"
        /\ writeLog[i].el = 1
        /\ writeLog[i + 1].kind = "html"
        /\ writeLog[i + 1].el = 2

(***************************************************************************)
(* C10: a key that resolves to no element does not make bind throw, and an *)
(* emission of its stream changes no element and reports no error.         *)
(***************************************************************************)
ResolvesToNothing(kind, key) ==
    LET sel == SelectorFor(kind, key) IN
    sel.t # "invalid" /\ {e \in Elems : Matches(e, sel)} = {}

C10_NoMatchIsNoOp ==
    [][/\ \A b \in Binds :
            (bound'[b] = "threw" /\ RootUsable(rootOf'[b])) =>
                \E en \in SinkEntries(declOf'[b]) :
                    SelectorFor(en.kind, en.key).t = "invalid"
       /\ (EmitStep /\ ResolvesToNothing(LastEmit.kind, LastEmit.key)) =>
            /\ dom' = dom
            /\ writeLog' = writeLog
            /\ reported' = reported]_vars

\* bind returned for a declaration with two keys that resolve to nothing, and
\* both their streams have emitted.
C10_Witness ==
    /\ declOf[1] = DeclDisabled
    /\ bound[1] = "ok"
    /\ Emitted(1, "text", "missing") # <<>>
    /\ Emitted(1, "html", "missing") # <<>>
    /\ writeLog = <<>>

(***************************************************************************)
(* C11: a bind call whose root is not a usable element throws a            *)
(* BindingError before anything is set up: no stream of the declaration    *)
(* has been subscribed, no native listener registered, no element written, *)
(* and the call produces no binding result.                                *)
(***************************************************************************)
C11_InvalidRootFailsFirst ==
    [][\A b \in Binds :
          (bound[b] = "none" /\ bound'[b] # "none" /\ ~RootUsable(rootOf'[b]))
          => /\ bound'[b] = "threw"
             /\ children'[b] = <<>>
             /\ eventNames'[b] = {}
             /\ eventSubs' = eventSubs
             /\ listeners' = listeners
             /\ dom' = dom
             /\ writeLog' = writeLog]_vars

\* bind was called with an SVG root and a declaration that has sinks on
\* existing elements and a callback on an existing event source: it threw
\* and holds no subscription and no listener.
C11_Witness ==
    /\ rootOf[1] = "svg"
    /\ declOf[1] = DeclText
    /\ bound[1] = "threw"
    /\ children[1] = <<>>
    /\ \A e \in Elems : listeners[e][1] = 0

(***************************************************************************)
(* C12 as stated: a bind call on a usable root whose declaration has a key *)
(* that is no selector of the tree-query dialect throws a BindingError and *)
(* produces no result, and the sinks set up by the entries before that key *)
(* stay subscribed.                                                        *)
(***************************************************************************)
\* The declaration has a sink key that the tree query cannot parse.
Malformed(d) == \E en \in SinkEntries(d) : ParseSelector(en.key).t = "invalid"

\* The position of the first unparsable key among the statements of bind.
FirstMalformed(d) ==
    LET steps == BindSteps(d) IN
    CHOOSE i \in DOMAIN steps :
        /\ steps[i] \in SinkEntries(d) /\ ParseSelector(steps[i].key).t = "invalid"
        /\ \A j \in 1..(i - 1) :
               ~(steps[j] \in SinkEntries(d) /\ ParseSelector(steps[j].key).t = "invalid")

C12_MalformedKeyFails ==
    [][\A b \in Binds :
          (bound[b] = "none" /\ bound'[b] # "none" /\ RootUsable(rootOf'[b])
             /\ Malformed(declOf'[b]))
          => /\ bound'[b] = "threw"
             /\ LET steps == BindSteps(declOf'[b]) IN
                \A j \in 1..(FirstMalformed(declOf'[b]) - 1) :
                    (steps[j] \in SinkEntries(declOf'[b])
                       /\ ~ResolvesToNothing(steps[j].kind, steps[j].key))
                    => \E c \in DOMAIN children'[b] :
                           /\ children'[b][c].kind = steps[j].kind
                           /\ children'[b][c].key = steps[j].key
                           /\ ~children'[b][c].closed]_vars

\* bind returned a result for a declaration whose markup key is no selector.
C12_Witness ==
    /\ declOf[1] = DeclMalformedMarkup
    /\ rootOf[1] = "element"
    /\ bound[1] = "ok"

(***************************************************************************)
(* C13 as stated: the DOM state bind leaves behind does not depend on the  *)
(* order in which the binding kinds are processed: processing the kinds in *)
(* the reverse order yields the same element properties.                   *)
(***************************************************************************)
\* The statements of bind with the sink kinds taken in the reverse order.
KindsReversed(d) ==
    EntriesOf("data-state", d.custom, 1) \o EntriesOf("disabled", d.disabled, 1)
    \o EntriesOf("className", d.className, 1) \o EntriesOf("html", d.html, 1)
    \o EntriesOf("value", d.value, 1) \o EntriesOf("text", d.text, 1)
    \o <<Entry("events$", "")>> \o EntriesOf("events", d.events, 1)

C13_KindOrderIrrelevant ==
    [][\A b \in Binds :
          (bound[b] = "none" /\ bound'[b] = "ok")
          => dom' = RunBind(BindStart(b, declOf'[b]), b,
                            KindsReversed(declOf'[b]), 1).dom]_vars

\* A text sink and a markup sink both assigned element 1 during bind, the
\* text sink first, with values that render differently.
C13_Witness ==
    /\ bound[1] = "ok"
    /\ emitLog = <<>>
    /\ \E i, j \in DOMAIN writeLog :
          /\ i < j
          /\ writeLog[i].el = 1 /\ writeLog[i].kind = "text"
          /\ writeLog[j].el = 1 /\ writeLog[j].kind = "html"
          /\ writeLog[i].val # writeLog[j].val
          /\ dom[1].content = writeLog[j].val

(***************************************************************************)
(* C14: events$ streams are multicast without replay.  Only a click        *)
(* delivers events: a consumer that subscribes after a click gets nothing  *)
(* for it, and a click on an element marked n gives one event to every     *)
(* consumer subscribed to events$[n] at that moment.                       *)
(***************************************************************************)
C14_NoReplayForLateSubscriber ==
    [][/\ clicks' = clicks => received' = received
       /\ clicks' = clicks + 1 =>
            \A b \in Binds, n \in Names, c \in Consumers :
                (c \in eventSubs[b][n] /\ lastClick' \in SourcesOf(n))
                => received'[b][n][c] > received[b][n][c]]_vars

\* A "go" button was clicked while only the callback was subscribed; consumer
\* c1 subscribed afterwards and has received nothing.
C14_Witness ==
    /\ clicks = 1
    /\ lastClick \in SourcesOf("go")
    /\ received[1]["go"][Callback] = 1
    /\ "c1" \in eventSubs[1]["go"]
    /\ received[1]["go"]["c1"] = 0

(***************************************************************************)
(* C15: a callback declared under name n is subscribed by bind exactly     *)
(* when events$[n] exists, and is then invoked once per click on an        *)
(* element marked n; a callback whose name no element carries does not     *)
(* make bind fail and is never invoked.                                    *)
(***************************************************************************)
\* The names declaration d gives a callback.
CallbackNames(d) == {d.events[i] : i \in DOMAIN d.events}

EmptyMarked == {e \in Elems : Page[e].data["data-on"] = ""}

C17_InitialModelShown ==
    (mvu[App].status = "running" /\ mvu[App].emitted = 0) =>
        \A en \in SinkEntries(declOf[App]) : \A e \in Elems :
            (Matches(e, SelectorFor(en.kind, en.key))
               /\ HandlerOutcome(en.kind, e) = "write")
            => /\ dom[e][Prop(en.kind)] = Render(en.kind, mvu[App].init)
               /\ Written(App, en.kind, en.key, e) = <<Render(en.kind, mvu[App].init)>>

\* runMVU returned with initial model 1: the text sink subscribed first, and
\* element 2, whose disabled sink subscribed to model$ last, shows it too.
C17_Witness ==
    /\ mvu[App].status = "running"
    /\ mvu[App].emitted = 0
    /\ mvu[App].init = "n1"
    /\ Len(children[App]) = 3
    /\ children[App][3].kind = "disabled"
    /\ children[App][3].els = <<2>>
    /\ dom[2].disabled = "true"
    /\ dom[2].content = "1"

(***************************************************************************)
(* C18 as stated: while the handle is running, the current model is the    *)
(* left fold of update over all messages received so far, in arrival       *)
(* order, seeded with init.                                                *)
(***************************************************************************)
RECURSIVE Fold(_, _)
Fold(m, q) == IF q = <<>> THEN m ELSE Fold(update(m, Head(q)), Tail(q))

C18_ModelIsFoldOfMessages ==
    mvu[App].status = "running" => mvu[App].model = Fold(mvu[App].init, mvu[App].msgs)

\* The external stream completed, a click on a "go" button then sent Inc to
\* msg$, and the model is still the initial one.
C18_Witness ==
    /\ mvu[App].status = "running"
    /\ mvu[App].ext = "done"
    /\ mvu[App].msgs = <<"Inc">>
    /\ lastClick \in SourcesOf("go")
    /\ mvu[App].model = mvu[App].init

(***************************************************************************)
(* C19 as stated: while the handle is not disposed, every message either   *)
(* source hands to the message channel is applied to the model, whether or *)
(* not the other source has completed.                                     *)
(***************************************************************************)
C19_BothSourcesFeedChannel ==
    [][(mvu[App].status = "running" /\ Len(mvu'[App].msgs) = Len(mvu[App].msgs) + 1)
       => mvu'[App].model = update(mvu[App].model, mvu'[App].msgs[Len(mvu'[App].msgs)])]_vars

\* eventsToMsg merged no stream (no element carries the names it looks up),
\* the external stream then emitted Inc, and the model is still the initial
\* one.
C19_Witness ==
    /\ mvu[App].status = "running"
    /\ mvu[App].names = {}
    /\ mvu[App].ext = "open"
    /\ mvu[App].stopped
    /\ mvu[App].msgs = <<"Inc">>
    /\ mvu[App].model = mvu[App].init

(***************************************************************************)
(* C20: the Subscription runMVU returns controls the whole lifecycle.      *)
(* Once it is unsubscribed no listener of the run is left on any element,  *)
(* no click and no external message changes the model or an element, and   *)
(* the handle stays unsubscribed.                                          *)
(***************************************************************************)
C20_UnsubscribeEndsTheRun ==
    [][/\ mvu'[App].status = "unsubscribed" =>
            /\ \A e \in Elems : listeners'[e][App] = 0
            /\ \A c \in DOMAIN children'[App] : children'[App][c].closed
       /\ mvu[App].status = "unsubscribed" =>
            /\ mvu'[App].status = "unsubscribed"
            /\ mvu'[App].model = mvu[App].model
            /\ mvu'[App].msgs = mvu[App].msgs
            /\ dom' = dom
            /\ writeLog' = writeLog]_vars

\* The run had subscribed the "go" buttons and the external stream and was
\* unsubscribed before any message; afterwards a "go" button was clicked and
\* the external stream emitted, and the model is the initial one.
C20_Witness ==
    /\ mvu[App].status = "unsubscribed"
    /\ "go" \in mvu[App].names
    /\ mvu[App].ext = "closed"
    /\ mvu[App].emitted >= 1
    /\ lastClick \in SourcesOf("go")
    /\ mvu[App].msgs = <<>>
    /\ mvu[App].model = mvu[App].init
    /\ writeLog # <<>>

(***************************************************************************)
(* C22: one disposal tears down every sink subscription and every callback *)
(* subscription of the bind call.  Afterwards a click invokes no callback  *)
(* of that call, and an element keeps a native listener of the call only   *)
(* while another consumer of events$ is subscribed.                        *)
(***************************************************************************)
C22_DisposeTearsDownCallbacks ==
    [][\A b \in Binds :
          /\ disposed'[b] # "no" =>
                /\ \A c \in DOMAIN children'[b] : children'[b][c].closed
                /\ \A n \in Names : Callback \notin eventSubs'[b][n]
                /\ \A n \in Names : \A e \in SourcesOf(n) :
                       eventSubs'[b][n] = {} => listeners'[e][b] = 0
          /\ disposed[b] # "no" =>
                \A n \in Names : received'[b][n][Callback] = received[b][n][Callback]]_vars

\* The callback ran for a click before dispose(); after dispose() a "go"
\* button was clicked again, no listener of the call is left, and the callback
\* count has not moved; the two text sinks are closed as well.
C22_Witness ==
    /\ disposed[1] # "no"
    /\ clicks = 2
    /\ lastClick \in SourcesOf("go")
    /\ received[1]["go"][Callback] = 1
    /\ \A e \in Elems : listeners[e][1] = 0
    /\ Len(children[1]) = 3
    /\ \A c \in DOMAIN children[1] : children[1][c].closed

(***************************************************************************)
(* C23: for one bind result a marked element carries at most one native    *)
(* click listener on behalf of events$[name], however many consumers are   *)
(* subscribed; it carries one exactly while events$[name] has a            *)
(* subscriber.                                                             *)
(***************************************************************************)
C23_OneListenerPerResult ==
    \A b \in Binds, e \in Elems :
        /\ listeners[e][b] <= 1
        /\ listeners[e][b] = 1
           <=> \E n \in Names : e \in SourcesOf(n) /\ eventSubs[b][n] # {}

\* Three subscribers share events$.go of bind 1 and each "go" button carries
\* one listener of that bind; bind 2's stream has lost its last consumer and
\* its listeners are gone.
C23_Witness ==
    /\ Cardinality(eventSubs[1]["go"]) = 3
    /\ \A e \in SourcesOf("go") : listeners[e][1] = 1 /\ listeners[e][2] = 0
    /\ bound[2] = "ok"
    /\ eventSubs[2]["go"] = {}
    /\ clicks = 2
    /\ \E c \in Consumers : received[2]["go"][c] > 0

(***************************************************************************)
(* C25: an emission of the sink of kind K and key k changes nothing but    *)
(* K's target property on the elements the sink holds; bind itself changes *)
(* no element when no stream has emitted, and a property no sink has been  *)
(* given a value for is as it was before bind.                             *)
(***************************************************************************)
Props == {"content", "value", "className", "disabled", "attr"}

\* Some sink of bind b that holds e and assigns property p has had an emission.
EmittedFor(e, p) ==
    \E i \in DOMAIN emitLog :
        /\ Prop(emitLog[i].kind) = p
        /\ e \in Held(emitLog[i].bind, [kind |-> emitLog[i].kind, key |-> emitLog[i].key])

C25_OnlyTargetPropertyChanges ==
    [][/\ EmitStep =>
            \A e \in Elems, p \in Props :
                dom'[e][p] # dom[e][p]
                => /\ p = Prop(LastEmit.kind)
                   /\ e \in Held(LastEmit.bind,
                                 [kind |-> LastEmit.kind, key |-> LastEmit.key])
       /\ ~EmitStep => dom' = dom
       /\ \A e \in Elems, p \in Props :
            ~EmittedFor(e, p) => dom[e][p] = InitDom[e][p]]_vars

\* The class sink of a declaration with a markup sink on the same elements
\* has emitted and the markup sink has not: the class changed, the content
\* of both elements is as before bind.
C25_Witness ==
    /\ declOf[1] = DeclMarkup
    /\ bound[1] = "ok"
    /\ Emitted(1, "className", "box") # <<>>
    /\ Emitted(1, "html", "content") = <<>>
    /\ \A e \in {1, 2} : /\ dom[e].className # InitDom[e].className
                         /\ dom[e].content = InitDom[e].content

(***************************************************************************)
(* C21: two run calls on two distinct roots are independent islands.  A    *)
(* click on an event-source element under the root of run h adds no        *)
(* message to the reducer loop of the other run g, and leaves g's model    *)
(* and the elements under g's root as they were.                           *)
(***************************************************************************)
\* The step is a click on an event source under the root of run h, which
\* leaves the other run g alone.
LeavesAlone(h, g) ==
    (/\ clicks' = clicks + 1
     /\ mvu[h].status = "running"
     /\ mvu[g].status = "running"
     /\ lastClick' \in Under(rootOf[h])
     /\ Page[lastClick'].data["data-on"] = "go")
    => /\ mvu'[g] = mvu[g]
       /\ \A e \in Under(rootOf[g]) : dom'[e] = dom[e]

C21_DistinctRootsIndependent ==
    [][\A h \in Binds : \A g \in Binds \ {h} :
          rootOf[h] # rootOf[g] => LeavesAlone(h, g)]_vars

\* C21 for roots neither of which contains the other: the two sibling
\* islands of the page.
C21_DisjointRootsIndependent ==
    [][\A h \in Binds : \A g \in Binds \ {h} :
          {rootOf[h], rootOf[g]} = IslandRoots => LeavesAlone(h, g)]_vars

\* Both islands run from model null; the button of counter-1 was clicked
\* once: run 1 folded one message and shows 1, run 2 has none and shows the
\* initial model.
C21_Witness ==
    /\ rootOf[1] = "counter-1"
    /\ rootOf[2] = "counter-2"
    /\ mvu[1].status = "running"
    /\ mvu[2].status = "running"
    /\ mvu[1].init = "null"
    /\ mvu[2].init = "null"
    /\ clicks = 1
    /\ lastClick = 3
    /\ mvu[1].msgs = <<"Inc">>
    /\ mvu[2].msgs = <<>>
    /\ mvu[1].model = "n1"
    /\ mvu[2].model = "null"
    /\ dom[1].content = "1"
    /\ dom[2].content = ""

(***************************************************************************)
(* C24: the element set of a sink is captured once, at bind time.  bind    *)
(* captures for each key the elements that match it in the document as it  *)
(* is when bind runs; no later step changes the captured set; and every    *)
(* emission a sink delivers is written to exactly the captured elements,   *)
(* whether they are still in the document or not, and to no element        *)
(* inserted since.                                                         *)
(***************************************************************************)
\* The elements the emission of the step was written to.
WrittenNow == {NewWrites[i].el : i \in DOMAIN NewWrites}

C24_CapturedOnce ==
    [][\A en \in SinkEntries(DeclCapture) :
          /\ (bound[1] = "none" /\ bound'[1] = "ok")
             => Held(1, en)' = {e \in Elems : Matches(e, SelectorFor(en.kind, en.key))}
          /\ bound[1] = "ok" => Held(1, en)' = Held(1, en)
          /\ (EmitStep /\ LastEmit.kind = en.kind /\ LastEmit.key = en.key)
             => WrittenNow = IF Passes THEN Held(1, en) ELSE {}]_vars

\* bind ran while element 2 was out of the document and captured element 1
\* alone; then element 2 was inserted and element 1 removed.  The emission
\* of 1 on the text stream was written to the removed element 1 and not to
\* element 2, which now matches the key.
C24_Witness ==
    /\ bound[1] = "ok"
    /\ Held(1, [kind |-> "text", key |-> ".test"]) = {1}
    /\ ~dom[1].attached
    /\ dom[2].attached
    /\ Matches(2, ParseSelector(".test"))
    /\ Len(emitLog) = 1
    /\ emitLog[1].kind = "text"
    /\ emitLog[1].val = "n1"
    /\ dom[1].content = "1"
    /\ dom[2].content = "init"

(***************************************************************************)
(* C26: between two messages every property bound through view(model$)     *)
(* shows the current model.  While the run is running, each element a sink *)
(* of the view holds has, in the property the sink assigns, the rendering  *)
(* of the model the reducer has reached, so no sink lags behind another.   *)
(***************************************************************************)
C26_SinksShowCurrentModel ==
    mvu[App].status = "running" =>
        \A en \in SinkEntries(declOf[App]) : \A e \in Held(App, en) :
            dom[e][Prop(en.kind)] = Render(en.kind, mvu[App].model)

\* From model null: a click (Inc), the external message Reset, a second click
\* (Inc).  The model is 1, and the text sink and the disabled sink, which
\* subscribed to model$ last, both show it.
C26_Witness ==
    /\ mvu[App].status = "running"
    /\ mvu[App].init = "null"
    /\ mvu[App].msgs = <<"Inc", "Reset", "Inc">>
    /\ clicks = 2
    /\ mvu[App].model = "n1"
    /\ Held(App, [kind |-> "text", key |-> ".test"]) = {1, 2}
    /\ Held(App, [kind |-> "disabled", key |-> "dec"]) = {1, 2}
    /\ \A e \in {1, 2} : dom[e].content = "1" /\ dom[e].disabled = "true"

(***************************************************************************)
(* C27 as stated: a consumer that subscribes to the stream of              *)
(* createHashRoute$() gets at once the route of the location hash as it is *)
(* when it subscribes; every hashchange event dispatched while it is       *)
(* subscribed gives it the route of the location unless that route has the *)
(* raw hash of the one it got last; and it never gets two routes in a row  *)
(* with the same raw hash.                                                 *)
(***************************************************************************)
\* Consumer c subscribes in the step and gets the route of the present hash.
FirstIsCurrent(c) ==
    (c \in route'.subs /\ c \notin route.subs) => route'.got[c] = <<getRoute(win)>>

\* A hashchange event dispatched while c is subscribed gives c the route of
\* the location, unless it repeats the hash of the last route c got.
ChangeIsEmitted(c) ==
    (win'.pending < win.pending /\ c \in route.subs)
    => route'.got[c] = IF Last(route.got[c]).hash = getRoute(win).hash
                       THEN route.got[c]
                       ELSE Append(route.got[c], getRoute(win))

\* No two routes in a row that c got have the same raw hash.
NoRepeat(c) ==
    \A i \in 1..(Len(route'.got[c]) - 1) :
        route'.got[c][i].hash # route'.got[c][i + 1].hash

C27_CurrentRouteThenChanges ==
    [][\A c \in Consumers : FirstIsCurrent(c) /\ ChangeIsEmitted(c) /\ NoRepeat(c)]_vars

\* The stream was created while the location had no hash; the location then
\* changed to #/about and the hashchange event went by with nobody subscribed.
\* c1 subscribes and gets the route of '#/'; no event is queued that would
\* bring the route of '#/about'.
C27_Witness ==
    /\ route.created
    /\ route.subs = {"c1"}
    /\ win.hash = "#/about"
    /\ win.pending = 0
    /\ route.got["c1"] = <<parseRoute("#/")>>

(***************************************************************************)
(* C28: bindHashLinks intercepts a click on an a[data-link] anchor, that   *)
(* is, prevents the default action and assigns the href to the location    *)
(* hash, exactly when the click is a primary-button click with no modifier *)
(* key that was not already default-prevented and the href starts with     *)
(* '#'.  Any other click is left as it was, and so is the location; once   *)
(* the Subscription is unsubscribed no click is intercepted.               *)
(***************************************************************************)
\* The step is a click on a marked anchor.
LinkClickStep == links'.clicks = links.clicks + 1 /\ LinkPage[links'.last.a].link

\* The click of the step was intercepted.
Intercepted ==
    /\ ~links'.last.ev.defaultPrevented
    /\ links'.last.prevented
    /\ win'.hash = LinkPage[links'.last.a].href

\* The click of the step and the location were left as they were.
Untouched ==
    /\ links'.last.prevented = links'.last.ev.defaultPrevented
    /\ win' = win

\* An unmodified primary-button click that was not default-prevented.
Plain(ev) == ~ev.defaultPrevented /\ ev.button = 0 /\ ev.key = "none"

C28_InterceptsPlainHashClicks ==
    [][LinkClickStep =>
          /\ links.status = "bound" =>
                /\ Intercepted <=> (Plain(links'.last.ev)
                                    /\ StartsWithHash(LinkPage[links'.last.a].href))
                /\ Intercepted \/ Untouched
          /\ links.status = "unsubscribed" => Untouched]_vars

\* A first click on the anchor with href #/about was intercepted; the
\* location went back to '#/', the Subscription was unsubscribed, and the same
\* plain click on the same anchor was left alone.
C28_Witness ==
    /\ links.status = "unsubscribed"
    /\ links.clicks = 2
    /\ links.intercepts = 1
    /\ links.last.a = 1
    /\ Plain(links.last.ev)
    /\ ~links.last.prevented
    /\ win.hash = "#/"

====
